---- MODULE Spec2Model ----
(***************************************************************************)
(* weathr: the main loop of src/main.rs (main, run_app), the terminal      *)
(* renderer of src/render.rs and the rain particle system of               *)
(* src/animation/raindrops.rs.                                             *)
(*                                                                         *)
(* Time is counted in seconds.  The f32 coordinate y of a raindrop and its *)
(* speed are kept in tenths of a cell (all values the code assigns are     *)
(* multiples of 0.1); `y as u16` is the saturating truncation.             *)
(* Option<T> is a sequence of length at most one: None == <<>>.            *)
(* A panic unwinds (the default profile), so locals are dropped.  The      *)
(* storm, cloud, bird and sun systems appear as the calls run_app makes on *)
(* them; the frame timer of the sun animation (main.rs 278-284) touches no *)
(* state kept here.                                                        *)
(***************************************************************************)
EXTENDS Integers, Sequences, FiniteSets, TLC

(* ---------------------------------------------------------------- bounds *)
MaxTime == 600
HalfInterval == 150
SmallW == 13
SmallH == 4
TallW == 1
TallH == 21
WideW == 6000
MaxProbeIndex == 60
DeepH == 63
MaxOverflowProbes == 3

(* ------------------------------------------------------ program constants *)
REFRESH_INTERVAL == 300
U16 == 65536
DropDensity == 40
TallThreshold == 20

None == <<>>
Some(v) == <<v>>

Delays == {0, HalfInterval, REFRESH_INTERVAL}
Viewports == {<<SmallW, SmallH>>, <<TallW, TallH>>}
\* viewports of the rain system on its own: one, two and four drops
RainViewports == {<<SmallW, SmallH>>, <<SmallW, 2 * SmallH>>, <<2 * SmallW + 1, SmallH + 2>>}
\* viewports of the single drop followed on its own
ProbeViewports == {<<SmallW, SmallH>>, <<WideW, 1>>, <<WideW, 2>>, <<WideW, DeepH>>,
                   <<WideW, DeepH + 1>>}

(* ------------------------------------------------------------ conditions *)
WeatherCondition ==
  {"Clear", "PartlyCloudy", "Cloudy", "Overcast", "Fog", "Drizzle", "Rain",
   "FreezingRain", "Snow", "SnowGrains", "RainShowers", "SnowShowers",
   "Thunderstorm", "ThunderstormHail"}

\* values given to --simulate in the sessions explored
SimulateInputs == {"rain", "RAINY", "Hail", "thunder", "partly-cloudy", "snow", "zzz"}

\* str::to_lowercase on the inputs explored
to_lowercase(s) ==
  CASE s = "RAINY" -> "rainy"
    [] s = "Hail" -> "hail"
    [] OTHER -> s

\* parse_weather_condition without the "rain" spelling: it falls to the default
parse_weather_condition_NoRain(input) ==
  LET s == to_lowercase(input) IN
  CASE s \in {"clear", "sunny"} -> "Clear"
    [] s \in {"partly-cloudy", "partly_cloudy", "partlycloudy"} -> "PartlyCloudy"
    [] s = "cloudy" -> "Cloudy"
    [] s = "overcast" -> "Overcast"
    [] s \in {"fog", "foggy"} -> "Fog"
    [] s = "drizzle" -> "Drizzle"
    [] s = "rainy" -> "Rain"
    [] s \in {"freezing-rain", "freezing_rain", "freezingrain"} -> "FreezingRain"
    [] s \in {"snow", "snowy"} -> "Snow"
    [] s \in {"snow-grains", "snow_grains", "snowgrains"} -> "SnowGrains"
    [] s \in {"rain-showers", "rain_showers", "rainshowers", "showers"} -> "RainShowers"
    [] s \in {"snow-showers", "snow_showers", "snowshowers"} -> "SnowShowers"
    [] s \in {"thunderstorm", "thunder"} -> "Thunderstorm"
    [] s \in {"thunderstorm-hail", "thunderstorm_hail", "hail"} -> "ThunderstormHail"
    [] OTHER -> "Clear"

parse_weather_condition(input) ==
  LET s == to_lowercase(input) IN
  CASE s \in {"clear", "sunny"} -> "Clear"
    [] s \in {"partly-cloudy", "partly_cloudy", "partlycloudy"} -> "PartlyCloudy"
    [] s = "cloudy" -> "Cloudy"
    [] s = "overcast" -> "Overcast"
    [] s \in {"fog", "foggy"} -> "Fog"
    [] s = "drizzle" -> "Drizzle"
    [] s \in {"rain", "rainy"} -> "Rain"
    [] s \in {"freezing-rain", "freezing_rain", "freezingrain"} -> "FreezingRain"
    [] s \in {"snow", "snowy"} -> "Snow"
    [] s \in {"snow-grains", "snow_grains", "snowgrains"} -> "SnowGrains"
    [] s \in {"rain-showers", "rain_showers", "rainshowers", "showers"} -> "RainShowers"
    [] s \in {"snow-showers", "snow_showers", "snowshowers"} -> "SnowShowers"
    [] s \in {"thunderstorm", "thunder"} -> "Thunderstorm"
    [] s \in {"thunderstorm-hail", "thunderstorm_hail", "hail"} -> "ThunderstormHail"
    [] OTHER -> "Clear"

\* the three flag assignments of the simulated start (main.rs 103-118)
SimFlags(c) ==
  LET thunder == c \in {"Thunderstorm", "ThunderstormHail"} IN
  [is_thunderstorm |-> thunder,
   is_raining |-> ~thunder /\ c \in {"Drizzle", "Rain", "RainShowers", "FreezingRain"},
   is_cloudy |-> c \in {"PartlyCloudy", "Cloudy", "Overcast"}]

\* FetchFlags that takes Fog for a cloudy condition
FetchFlags_FogCloudy(c) ==
  LET thunder == c \in {"Thunderstorm", "ThunderstormHail"} IN
  [is_thunderstorm |-> thunder,
   is_raining |-> ~thunder /\ c \in {"Drizzle", "Rain", "RainShowers", "FreezingRain"},
   is_cloudy |-> c \in {"PartlyCloudy", "Cloudy", "Overcast", "Fog"}]

\* the three flag assignments of a successful fetch (main.rs 148-163)
FetchFlags(c) ==
  LET thunder == c \in {"Thunderstorm", "ThunderstormHail"} IN
  [is_thunderstorm |-> thunder,
   is_raining |-> ~thunder /\ c \in {"Drizzle", "Rain", "RainShowers", "FreezingRain"},
   is_cloudy |-> c \in {"PartlyCloudy", "Cloudy", "Overcast"}]

\* WeatherData built for a simulated condition (main.rs 119-139); precipitation in tenths
SimulatedWeather(c) ==
  [condition |-> c,
   precipitation |-> IF c \in {"Rain", "Drizzle", "RainShowers"} THEN 25 ELSE 0,
   timestamp |-> "simulated"]

\* WeatherData a successful fetch returns: its condition is the provider's choice
FetchedWeather(c) ==
  [condition |-> c, precipitation |-> 0, timestamp |-> "fetched"]

(* ----------------------------------------------------------- rain system *)
Min(a, b) == IF a < b THEN a ELSE b

\* `v as u16` for a non-negative f32 given in tenths: truncate, saturate
F32AsU16(y10) == Min(y10 \div 10, U16 - 1)

\* the glyphs ['|', '\'', '.', '`']; the grave accent is spelled out
characters == <<"|", "'", ".", "grave">>

drop_count(w, h) == (w * h) \div DropDensity

\* the Raindrop pushed for index i (raindrops.rs 26-31); u16 product wraps
NewDrop(i, w, h) ==
  [x |-> (((i % U16) * 7) % U16) % w,
   y |-> (37 * i) % (10 * h),
   speed |-> 3 + (i % 5),
   character |-> characters[(i % 4) + 1]]

RaindropSystem_new(w, h) ==
  [drops |-> [k \in 1..drop_count(w, h) |-> NewDrop(k - 1, w, h)],
   terminal_width |-> w,
   terminal_height |-> h]

\* the remapped column of a drop that wraps (raindrops.rs 52)
WrapX(x, w) == ((x * 13 + 7) % U16) % w

\* UpdateDrop that wraps only past the row below the last one
UpdateDrop_LateWrap(d, w, h) ==
  LET y1 == d.y + d.speed IN
  IF F32AsU16(y1) > h
    THEN [d EXCEPT !.y = 0, !.x = WrapX(d.x, w)]
    ELSE [d EXCEPT !.y = y1]

\* the body of the for loop of update (raindrops.rs 48-53)
UpdateDrop(d, w, h) ==
  LET y1 == d.y + d.speed IN
  IF F32AsU16(y1) >= h
    THEN [d EXCEPT !.y = 0, !.x = WrapX(d.x, w)]
    ELSE [d EXCEPT !.y = y1]

\* update without the reinitialization on changed dimensions
RaindropSystem_update_NoReinit(sys, w, h) ==
  [sys EXCEPT !.drops = [k \in DOMAIN sys.drops |-> UpdateDrop(sys.drops[k], w, h)]]

\* RaindropSystem::update (raindrops.rs 41-55)
RaindropSystem_update(sys, w, h) ==
  IF sys.terminal_width # w \/ sys.terminal_height # h
    THEN RaindropSystem_new(w, h)
    ELSE [sys EXCEPT !.drops = [k \in DOMAIN sys.drops |-> UpdateDrop(sys.drops[k], w, h)]]

\* the render_char calls of render, in order: <<x, y>> of each one (raindrops.rs 58-63)
RaindropSystem_render(sys) ==
  LET visible(d) == /\ F32AsU16(d.y) < sys.terminal_height
                    /\ d.x < sys.terminal_width
      kept == SelectSeq(sys.drops, visible)
  IN [k \in DOMAIN kept |-> <<kept[k].x, F32AsU16(kept[k].y)>>]

(* ------------------------------------------------------------------ state *)
VARIABLES
  pc,                  \* position of the process in main / run_app
  exit,                \* how the process ends: "none", "ok", "err", "panic"
  result,              \* what run_app returned: "none", "ok", "err"
  simulate_condition,  \* cli.simulate
  current_weather, weather_error,
  is_raining, is_thunderstorm, is_cloudy,
  now, last_update,    \* the clock and the Instant last_update
  width, height,       \* TerminalRenderer's cached size
  raindrop_system,
  raw_mode, alt_screen,  \* the terminal's state
  drawn,               \* the calls of the current tick's drawing section, in order
  writes,              \* the render_char calls of the rain system in the current tick
  prev_size,           \* the viewport of the previous tick
  last_call,           \* when get_current_weather was called last (-1: never)
  call_gap,            \* at a tick's refresh: time from the previous call to this tick's call (-1: none)
  fetched,             \* at a tick's refresh: "no", or the outcome "ok" / "err" of this tick's call
  flags_from,          \* which code path assigned the flags last
  init_attempted, cleanup_calls,
  probe,               \* one raindrop followed on its own: [w, h, i, d, fresh], or None
  event,               \* the key on which the poll broke the loop ("none" before that)
  header_text,         \* the text of the header line queued in the current tick, in segments
  last_success,        \* when the last successful fetch resolved (-1: none)
  last_done,           \* when the last fetch attempt resolved (-1: none)
  last_outcome         \* "none", or the outcome "ok" / "err" of the last attempt

vars == <<pc, exit, result, simulate_condition, current_weather, weather_error,
          is_raining, is_thunderstorm, is_cloudy, now, last_update, width, height,
          raindrop_system, raw_mode, alt_screen, drawn, writes, prev_size,
          last_call, call_gap, fetched, flags_from, init_attempted,
          cleanup_calls, probe, event, header_text, last_success, last_done,
          last_outcome>>

weatherVars == <<current_weather, weather_error, is_raining, is_thunderstorm,
                 is_cloudy, flags_from>>
clockVars == <<now, last_update>>
attemptVars == <<last_success, last_done, last_outcome>>
callVars == <<last_call, call_gap, fetched, attemptVars>>
termVars == <<raw_mode, alt_screen, init_attempted, cleanup_calls>>
sizeVars == <<width, height, prev_size>>
drawVars == <<drawn, writes, header_text>>

ProviderErrors == {"network unreachable", "bad response"}
PollEvents == {"timeout", "q", "Q", "ctrl-c", "c", "resize"}
InApp == {"setup", "refresh", "size", "draw", "poll"}

Init ==
  /\ pc = "main_new"
  /\ exit = "none"
  /\ result = "none"
  /\ simulate_condition \in {None} \cup {Some(s) : s \in SimulateInputs}
  /\ current_weather = None
  /\ weather_error = None
  /\ is_raining = FALSE
  /\ is_thunderstorm = FALSE
  /\ is_cloudy = FALSE
  /\ now = 0
  /\ last_update = 0
  /\ width = 0
  /\ height = 0
  /\ raindrop_system = RaindropSystem_new(0, 0)
  /\ raw_mode = FALSE
  /\ alt_screen = FALSE
  /\ drawn = <<>>
  /\ writes = <<>>
  /\ prev_size = <<0, 0>>
  /\ last_call = -1
  /\ call_gap = -1
  /\ fetched = "no"
  /\ probe = None
  /\ event = "none"
  /\ header_text = <<>>
  /\ last_success = -1
  /\ last_done = -1
  /\ last_outcome = "none"
  /\ flags_from = "none"
  /\ init_attempted = FALSE
  /\ cleanup_calls = 0

(* ------------------------------------------------------------------- main *)
\* TerminalRenderer::new (render.rs 15-24) called from main (main.rs 59)
MainNew ==
  /\ pc = "main_new"
  /\ \/ \E v \in Viewports :
          /\ width' = v[1]
          /\ height' = v[2]
          /\ pc' = "main_init"
          /\ exit' = exit
     \/ /\ pc' = "ended"              \* terminal::size() failed: no renderer exists
        /\ exit' = "err"
        /\ UNCHANGED <<width, height>>
  /\ UNCHANGED <<result, simulate_condition, probe, event, weatherVars, clockVars, raindrop_system,
                 raw_mode, alt_screen, drawVars, prev_size, callVars,
                 init_attempted, cleanup_calls>>

\* TerminalRenderer::init (render.rs 26-30) called from main (main.rs 60)
MainInit ==
  /\ pc = "main_init"
  /\ init_attempted' = TRUE
  /\ \/ /\ raw_mode' = TRUE
        /\ alt_screen' = TRUE
        /\ pc' = "setup"
        /\ exit' = exit
     \/ /\ UNCHANGED <<raw_mode, alt_screen>>    \* enable_raw_mode failed
        /\ pc' = "drop"
        /\ exit' = "err"
     \/ /\ raw_mode' = TRUE                      \* execute! failed
        /\ alt_screen' = alt_screen
        /\ pc' = "drop"
        /\ exit' = "err"
  /\ UNCHANGED <<result, simulate_condition, probe, event, weatherVars, clockVars, sizeVars,
                 raindrop_system, drawVars, callVars, cleanup_calls>>

\* TerminalRenderer::cleanup (render.rs 32-36): "ok", or the step that failed
CleanupOutcomes == {"ok", "execute_failed", "disable_failed"}

cleanup(outcome) ==
  /\ cleanup_calls' = cleanup_calls + 1
  /\ alt_screen' = IF outcome = "execute_failed" THEN alt_screen ELSE FALSE
  /\ raw_mode' = IF outcome = "ok" THEN FALSE ELSE raw_mode

\* renderer.cleanup()? and `result` (main.rs 64-66)
MainCleanup ==
  /\ pc = "main_cleanup"
  /\ \E outcome \in CleanupOutcomes :
       /\ cleanup(outcome)
       /\ exit' = IF outcome = "ok" THEN result ELSE "err"
  /\ pc' = "drop"
  /\ UNCHANGED <<result, simulate_condition, probe, event, weatherVars, clockVars, sizeVars,
                 raindrop_system, drawVars, callVars, init_attempted>>

\* a renderer without the Drop implementation
DropRenderer_NoCleanup ==
  /\ pc = "drop"
  /\ pc' = "ended"
  /\ UNCHANGED <<exit, result, simulate_condition, probe, event, weatherVars, clockVars, sizeVars,
                 raindrop_system, drawVars, callVars, termVars>>

\* Drop for TerminalRenderer (render.rs 105-109): runs when main returns or unwinds
DropRenderer ==
  /\ pc = "drop"
  /\ \E outcome \in CleanupOutcomes : cleanup(outcome)
  /\ pc' = "ended"
  /\ UNCHANGED <<exit, result, simulate_condition, probe, event, weatherVars, clockVars, sizeVars,
                 raindrop_system, drawVars, callVars, init_attempted>>

\* run_app returns or unwinds: its locals are dropped
LeaveApp ==
  /\ current_weather' = None
  /\ weather_error' = None
  /\ is_raining' = FALSE
  /\ is_thunderstorm' = FALSE
  /\ is_cloudy' = FALSE
  /\ flags_from' = "none"
  /\ last_update' = 0
  /\ prev_size' = <<0, 0>>
  /\ call_gap' = -1
  /\ fetched' = "no"
  /\ last_success' = -1
  /\ last_done' = -1
  /\ last_outcome' = "none"
  /\ raindrop_system' = RaindropSystem_new(0, 0)

\* a panic inside run_app unwinds through main and drops the renderer
Panic ==
  /\ pc \in InApp
  /\ LeaveApp
  /\ pc' = "drop"
  /\ exit' = "panic"
  /\ UNCHANGED <<result, simulate_condition, probe, event, now, width, height, drawVars, last_call,
                 termVars>>

(* ---------------------------------------------------------------- run_app *)
\* run_app up to the loop (main.rs 74-140)
Setup ==
  /\ pc = "setup"
  /\ raindrop_system' = RaindropSystem_new(width, height)
  /\ prev_size' = <<width, height>>
  /\ IF simulate_condition # None
       THEN LET c == parse_weather_condition(simulate_condition[1])
                f == SimFlags(c)
            IN /\ is_thunderstorm' = f.is_thunderstorm
               /\ is_raining' = f.is_raining
               /\ is_cloudy' = f.is_cloudy
               /\ current_weather' = Some(SimulatedWeather(c))
               /\ flags_from' = "simulate"
       ELSE UNCHANGED <<is_thunderstorm, is_raining, is_cloudy, current_weather,
                        flags_from>>
  /\ last_update' = now
  /\ pc' = "refresh"
  /\ UNCHANGED <<exit, result, simulate_condition, probe, event, weather_error, now, width, height,
                 drawVars, callVars, termVars>>

\* NeedsRefresh without the test of simulate_condition
NeedsRefresh_IgnoresSimulate ==
  current_weather = None \/ now - last_update >= REFRESH_INTERVAL

\* the condition of the refresh (main.rs 143-144)
NeedsRefresh ==
  /\ simulate_condition = None
  /\ (current_weather = None \/ now - last_update >= REFRESH_INTERVAL)

\* get_current_weather is called now and resolves after d seconds
CallProvider(d) ==
  /\ d \in Delays
  /\ now + d <= MaxTime
  /\ call_gap' = IF last_call = -1 THEN -1 ELSE now - last_call
  /\ last_call' = now
  /\ now' = now + d
  /\ last_update' = now'

\* FetchOk that leaves is_cloudy as it was
FetchOk_KeepsCloudy ==
  /\ pc = "refresh"
  /\ NeedsRefresh
  /\ \E d \in Delays, c \in WeatherCondition :
       /\ CallProvider(d)
       /\ LET f == FetchFlags(c)
          IN /\ is_thunderstorm' = f.is_thunderstorm
             /\ is_raining' = f.is_raining
             /\ is_cloudy' = is_cloudy
       /\ current_weather' = Some(FetchedWeather(c))
  /\ weather_error' = None
  /\ fetched' = "ok"
  /\ last_success' = now'
  /\ last_done' = now'
  /\ last_outcome' = "ok"
  /\ flags_from' = "fetch"
  /\ pc' = "size"
  /\ UNCHANGED <<exit, result, simulate_condition, probe, event, sizeVars, raindrop_system,
                 drawVars, termVars>>

\* FetchOk that leaves the error message of an earlier failure
FetchOk_KeepsError ==
  /\ pc = "refresh"
  /\ NeedsRefresh
  /\ \E d \in Delays, c \in WeatherCondition :
       /\ CallProvider(d)
       /\ LET f == FetchFlags(c)
          IN /\ is_thunderstorm' = f.is_thunderstorm
             /\ is_raining' = f.is_raining
             /\ is_cloudy' = f.is_cloudy
       /\ current_weather' = Some(FetchedWeather(c))
  /\ weather_error' = weather_error
  /\ fetched' = "ok"
  /\ last_success' = now'
  /\ last_done' = now'
  /\ last_outcome' = "ok"
  /\ flags_from' = "fetch"
  /\ pc' = "size"
  /\ UNCHANGED <<exit, result, simulate_condition, probe, event, sizeVars, raindrop_system,
                 drawVars, termVars>>

\* the Ok arm (main.rs 147-166)
FetchOk ==
  /\ pc = "refresh"
  /\ NeedsRefresh
  /\ \E d \in Delays, c \in WeatherCondition :
       /\ CallProvider(d)
       /\ LET f == FetchFlags(c)
          IN /\ is_thunderstorm' = f.is_thunderstorm
             /\ is_raining' = f.is_raining
             /\ is_cloudy' = f.is_cloudy
       /\ current_weather' = Some(FetchedWeather(c))
  /\ weather_error' = None
  /\ fetched' = "ok"
  /\ last_success' = now'
  /\ last_done' = now'
  /\ last_outcome' = "ok"
  /\ flags_from' = "fetch"
  /\ pc' = "size"
  /\ UNCHANGED <<exit, result, simulate_condition, probe, event, sizeVars, raindrop_system,
                 drawVars, termVars>>

\* FetchErr that also forgets the snapshot held
FetchErr_DropsSnapshot ==
  /\ pc = "refresh"
  /\ NeedsRefresh
  /\ \E d \in Delays, e \in ProviderErrors :
       /\ CallProvider(d)
       /\ weather_error' = Some("Error fetching weather: " \o e)
  /\ fetched' = "err"
  /\ last_done' = now'
  /\ last_outcome' = "err"
  /\ last_success' = last_success
  /\ current_weather' = None
  /\ pc' = "size"
  /\ UNCHANGED <<exit, result, simulate_condition, probe, event, is_raining,
                 is_thunderstorm, is_cloudy, flags_from, sizeVars, raindrop_system,
                 drawVars, termVars>>

\* FetchErr with the clock restarted in the Ok arm only
FetchErr_KeepsClock ==
  /\ pc = "refresh"
  /\ NeedsRefresh
  /\ \E d \in Delays, e \in ProviderErrors :
       /\ d \in Delays
       /\ now + d <= MaxTime
       /\ call_gap' = IF last_call = -1 THEN -1 ELSE now - last_call
       /\ last_call' = now
       /\ now' = now + d
       /\ last_update' = last_update
       /\ weather_error' = Some("Error fetching weather: " \o e)
  /\ fetched' = "err"
  /\ last_done' = now'
  /\ last_outcome' = "err"
  /\ last_success' = last_success
  /\ pc' = "size"
  /\ UNCHANGED <<exit, result, simulate_condition, probe, event, current_weather, is_raining,
                 is_thunderstorm, is_cloudy, flags_from, sizeVars, raindrop_system,
                 drawVars, termVars>>

\* the Err arm (main.rs 167-169)
FetchErr ==
  /\ pc = "refresh"
  /\ NeedsRefresh
  /\ \E d \in Delays, e \in ProviderErrors :
       /\ CallProvider(d)
       /\ weather_error' = Some("Error fetching weather: " \o e)
  /\ fetched' = "err"
  /\ last_done' = now'
  /\ last_outcome' = "err"
  /\ last_success' = last_success
  /\ pc' = "size"
  /\ UNCHANGED <<exit, result, simulate_condition, probe, event, current_weather, is_raining,
                 is_thunderstorm, is_cloudy, flags_from, sizeVars, raindrop_system,
                 drawVars, termVars>>

\* the refresh condition is false
NoRefresh ==
  /\ pc = "refresh"
  /\ ~NeedsRefresh
  /\ pc' = "size"
  /\ UNCHANGED <<exit, result, simulate_condition, probe, event, weatherVars, clockVars, sizeVars,
                 raindrop_system, drawVars, callVars, termVars>>

\* update_size and get_size (main.rs 174-175, render.rs 38-47)
ReadSize ==
  /\ pc = "size"
  /\ \E v \in Viewports :
       /\ width' = v[1]
       /\ height' = v[2]
  /\ prev_size' = <<width, height>>
  /\ drawn' = <<>>
  /\ writes' = <<>>
  /\ header_text' = <<>>
  /\ call_gap' = -1
  /\ fetched' = "no"
  /\ pc' = "draw"
  /\ UNCHANGED <<exit, result, simulate_condition, probe, event, weatherVars, clockVars,
                 raindrop_system, last_call, attemptVars, termVars>>

\* show_sun that is true whatever the condition
show_sun_Always == TRUE

\* show_sun (main.rs 239-243)
show_sun ==
  IF current_weather # None
    THEN current_weather[1].condition \in {"Clear", "PartlyCloudy"}
    ELSE ~is_raining /\ ~is_thunderstorm /\ ~is_cloudy

\* condition_text (main.rs 179-198)
condition_text ==
  IF current_weather # None
    THEN CASE current_weather[1].condition = "Clear" -> "Clear"
           [] current_weather[1].condition = "PartlyCloudy" -> "Partly Cloudy"
           [] current_weather[1].condition = "Cloudy" -> "Cloudy"
           [] current_weather[1].condition = "Overcast" -> "Overcast"
           [] current_weather[1].condition = "Fog" -> "Fog"
           [] current_weather[1].condition = "Drizzle" -> "Drizzle"
           [] current_weather[1].condition = "Rain" -> "Rain"
           [] current_weather[1].condition = "FreezingRain" -> "Freezing Rain"
           [] current_weather[1].condition = "Snow" -> "Snow"
           [] current_weather[1].condition = "SnowGrains" -> "Snow Grains"
           [] current_weather[1].condition = "RainShowers" -> "Rain Showers"
           [] current_weather[1].condition = "SnowShowers" -> "Snow Showers"
           [] current_weather[1].condition = "Thunderstorm" -> "Thunderstorm"
           [] current_weather[1].condition = "ThunderstormHail" -> "Thunderstorm with Hail"
    ELSE "Loading..."

\* the tail every header shares; the numbers of the location are left as format fields
LocationPart == " | Location: {:.2}N, {:.2}E | Press 'q' to quit"

\* weather_info that tests the snapshot before the error
weather_info_SnapshotFirst ==
  IF current_weather = None
    THEN <<"Weather: ", "Loading...", LocationPart>>
    ELSE IF weather_error # None
      THEN <<weather_error[1], LocationPart>>
      ELSE <<"Weather: ", condition_text, " | Temp: {:.1}C", LocationPart>>

\* weather_info (main.rs 200-215): the formatted string as the sequence of its segments
weather_info ==
  IF weather_error # None
    THEN <<weather_error[1], LocationPart>>
    ELSE IF current_weather # None
      THEN <<"Weather: ", condition_text, " | Temp: {:.1}C", LocationPart>>
      ELSE <<"Weather: ", "Loading...", LocationPart>>

\* where render_line_colored(2, 1, ...) moves the cursor (main.rs 217, render.rs 81)
HeaderAt == <<2, 1>>

house_y == IF height > TallThreshold THEN 10 ELSE 9
animation_y == IF height > TallThreshold THEN 3 ELSE 2

Opt(cond, ops) == IF cond THEN ops ELSE <<>>

\* the background layers (main.rs 220-236)
BackgroundOps ==
  Opt(is_cloudy \/ (~is_raining /\ ~is_thunderstorm),
      Opt(is_cloudy, << <<"clouds", "update", 0>>, <<"clouds", "render", 0>> >>)
      \o Opt(~is_raining /\ ~is_thunderstorm,
             << <<"birds", "update", 0>>, <<"birds", "render", 0>> >>))

\* the sun layer (main.rs 245-248)
SunOps ==
  Opt(show_sun /\ ~is_raining /\ ~is_thunderstorm, << <<"sun", "render", animation_y>> >>)

\* the house (main.rs 251-253)
HouseOps == << <<"house", "render", house_y>> >>

\* the foreground layer (main.rs 256-262)
ForegroundOps ==
  IF is_thunderstorm
    THEN << <<"storm", "update", 0>>, <<"storm", "render", 0>> >>
    ELSE Opt(is_raining, << <<"rain", "update", 0>>, <<"rain", "render", 0>> >>)

\* DrawOps with the house drawn before the sun
DrawOps_HouseBeforeSun ==
  << <<"screen", "clear", 0>>, <<"header", "render", 1>> >>
  \o BackgroundOps \o HouseOps \o SunOps \o ForegroundOps
  \o << <<"screen", "flush", 0>> >>

\* every call of the drawing section of a tick, in program order (main.rs 177-264):
\* <<layer, operation, row>>; an "update" cannot fail, every other call returns io::Result
DrawOps ==
  << <<"screen", "clear", 0>>, <<"header", "render", 1>> >>
  \o BackgroundOps \o SunOps \o HouseOps \o ForegroundOps
  \o << <<"screen", "flush", 0>> >>

Has(ops, op) == \E j \in DOMAIN ops : ops[j] = op

\* RainAfter of a loop that renders the rain without updating it
RainAfter_NoUpdate(done) == raindrop_system

\* the rain system after the calls `done` of the drawing section
RainAfter(done) ==
  IF Has(done, <<"rain", "update", 0>>)
    THEN RaindropSystem_update(raindrop_system, width, height)
    ELSE raindrop_system

\* the drawing section runs to the end: clear ... flush (main.rs 177-264)
Draw ==
  /\ pc = "draw"
  /\ drawn' = DrawOps
  /\ header_text' = weather_info
  /\ raindrop_system' = RainAfter(DrawOps)
  /\ writes' = IF Has(DrawOps, <<"rain", "render", 0>>)
                 THEN RaindropSystem_render(raindrop_system')
                 ELSE <<>>
  /\ pc' = "poll"
  /\ UNCHANGED <<exit, result, simulate_condition, probe, event, weatherVars, clockVars, sizeVars,
                 callVars, termVars>>

\* call k of the drawing section returns Err and `?` leaves run_app
DrawFail ==
  /\ pc = "draw"
  /\ \E k \in DOMAIN DrawOps :
       /\ DrawOps[k][2] # "update"
       /\ drawn' = SubSeq(DrawOps, 1, k)
       /\ header_text' = IF k >= 2 THEN weather_info ELSE <<>>
       /\ IF DrawOps[k] = <<"rain", "render", 0>>
            THEN \E n \in 0..Len(RaindropSystem_render(RainAfter(drawn'))) :
                   writes' = SubSeq(RaindropSystem_render(RainAfter(drawn')), 1, n)
            ELSE writes' = IF Has(drawn', <<"rain", "render", 0>>)
                             THEN RaindropSystem_render(RainAfter(drawn'))
                             ELSE <<>>
  /\ LeaveApp
  /\ result' = "err"
  /\ pc' = "main_cleanup"
  /\ UNCHANGED <<exit, simulate_condition, probe, event, now, width, height, last_call, termVars>>

\* update_size, event::poll or event::read returns Err (main.rs 174, 266, 267)
IoError ==
  /\ pc \in {"size", "poll"}
  /\ LeaveApp
  /\ result' = "err"
  /\ pc' = "main_cleanup"
  /\ UNCHANGED <<exit, simulate_condition, probe, event, now, width, height, drawVars, last_call,
                 termVars>>

\* a match that forgets the CONTROL guard on 'c'
IsQuit_PlainC(ev) == ev \in {"q", "Q", "ctrl-c", "c"}

IsQuit(ev) == ev \in {"q", "Q", "ctrl-c"}

\* event::poll and event::read give a quit key: break, Ok(()) (main.rs 266-272, 287)
PollQuit ==
  /\ pc = "poll"
  /\ \E ev \in PollEvents :
       /\ IsQuit(ev)
       /\ event' = ev
  /\ LeaveApp
  /\ result' = "ok"
  /\ pc' = "main_cleanup"
  /\ UNCHANGED <<exit, simulate_condition, probe, now, width, height, drawVars, last_call,
                 termVars>>

\* the poll times out or reads another event (main.rs 266-276); the next tick
\* starts d seconds later
PollContinue ==
  /\ pc = "poll"
  /\ \E ev \in PollEvents, d \in Delays :
       /\ ~IsQuit(ev)
       /\ now + d <= MaxTime
       /\ now' = now + d
  /\ pc' = "refresh"
  /\ UNCHANGED <<exit, result, simulate_condition, probe, event, weatherVars, last_update, sizeVars,
                 raindrop_system, drawVars, callVars, termVars>>

Next ==
  \/ MainNew
  \/ MainInit
  \/ Setup
  \/ FetchOk
  \/ FetchErr
  \/ NoRefresh
  \/ ReadSize
  \/ Draw
  \/ DrawFail
  \/ IoError
  \/ PollQuit
  \/ PollContinue
  \/ Panic
  \/ MainCleanup
  \/ DropRenderer

Spec == Init /\ [][Next]_vars

(* ------------------------------------------- the rain system on its own *)
otherVars == <<exit, result, simulate_condition, weatherVars, clockVars, width, height,
               prev_size, raw_mode, alt_screen, drawn, callVars, init_attempted,
               cleanup_calls, event, header_text>>

\* RaindropSystem::new (raindrops.rs 19-39)
InitRain ==
  /\ pc = "rain"
  /\ exit = "none"
  /\ result = "none"
  /\ simulate_condition = None
  /\ current_weather = None
  /\ weather_error = None
  /\ is_raining = FALSE
  /\ is_thunderstorm = FALSE
  /\ is_cloudy = FALSE
  /\ now = 0
  /\ last_update = 0
  /\ width = 0
  /\ height = 0
  /\ \E v \in RainViewports : raindrop_system = RaindropSystem_new(v[1], v[2])
  /\ raw_mode = FALSE
  /\ alt_screen = FALSE
  /\ drawn = <<>>
  /\ writes = <<>>
  /\ prev_size = <<0, 0>>
  /\ last_call = -1
  /\ call_gap = -1
  /\ fetched = "no"
  /\ flags_from = "none"
  /\ init_attempted = FALSE
  /\ cleanup_calls = 0
  /\ event = "none"
  /\ header_text = <<>>
  /\ last_success = -1
  /\ last_done = -1
  /\ last_outcome = "none"
  /\ probe = None

\* RaindropSystem::update with any viewport (raindrops.rs 41-55)
RainUpdate ==
  /\ pc = "rain"
  /\ \E v \in RainViewports :
       raindrop_system' = RaindropSystem_update(raindrop_system, v[1], v[2])
  /\ writes' = <<>>
  /\ UNCHANGED <<pc, otherVars, probe>>

\* RaindropSystem::render (raindrops.rs 57-65)
RainRender ==
  /\ pc = "rain"
  /\ writes' = RaindropSystem_render(raindrop_system)
  /\ UNCHANGED <<pc, otherVars, probe, raindrop_system>>

NextRain ==
  \/ RainUpdate
  \/ RainRender

SpecRain == InitRain /\ [][NextRain]_vars

\* the first index whose product `i as u16 * 7` passes the u16 range (raindrops.rs 27)
FirstOverflowIndex == U16 \div 7 + 1

\* the indices followed in a population of w * h / 40 drops: its first drops, or,
\* when it reaches FirstOverflowIndex, the first drops from there on
ProbeIndices(w, h) ==
  IF drop_count(w, h) > FirstOverflowIndex
    THEN FirstOverflowIndex..Min(drop_count(w, h), FirstOverflowIndex + MaxOverflowProbes) - 1
    ELSE 0..Min(drop_count(w, h) - 1, MaxProbeIndex)

\* the drop of index i right after new(w, h)
ProbeDrop(i, w, h) == [w |-> w, h |-> h, i |-> i, d |-> NewDrop(i, w, h), fresh |-> TRUE]

(* --------------------------------------------- one raindrop on its own *)
\* drop i of RaindropSystem::new(w, h), for some of the indices
InitProbe ==
  /\ pc = "probe"
  /\ exit = "none"
  /\ result = "none"
  /\ simulate_condition = None
  /\ current_weather = None
  /\ weather_error = None
  /\ is_raining = FALSE
  /\ is_thunderstorm = FALSE
  /\ is_cloudy = FALSE
  /\ now = 0
  /\ last_update = 0
  /\ width = 0
  /\ height = 0
  /\ raindrop_system = RaindropSystem_new(0, 0)
  /\ raw_mode = FALSE
  /\ alt_screen = FALSE
  /\ drawn = <<>>
  /\ writes = <<>>
  /\ prev_size = <<0, 0>>
  /\ last_call = -1
  /\ call_gap = -1
  /\ fetched = "no"
  /\ flags_from = "none"
  /\ init_attempted = FALSE
  /\ cleanup_calls = 0
  /\ event = "none"
  /\ header_text = <<>>
  /\ last_success = -1
  /\ last_done = -1
  /\ last_outcome = "none"
  /\ \E v \in ProbeViewports :
       \E i \in ProbeIndices(v[1], v[2]) : probe = Some(ProbeDrop(i, v[1], v[2]))

\* one iteration of the loop of update on that drop, dimensions unchanged
ProbeUpdate ==
  /\ pc = "probe"
  /\ probe' = Some([probe[1] EXCEPT !.d = UpdateDrop(probe[1].d, probe[1].w, probe[1].h),
                                    !.fresh = FALSE])
  /\ UNCHANGED <<pc, otherVars, raindrop_system, writes>>

\* update with other dimensions (raindrops.rs 42-45): the population is rebuilt
\* and the drop followed is the one new() pushes for the same index
ProbeResize ==
  /\ pc = "probe"
  /\ \E v \in ProbeViewports :
       /\ v # <<probe[1].w, probe[1].h>>
       /\ probe[1].i \in ProbeIndices(v[1], v[2])
       /\ probe' = Some(ProbeDrop(probe[1].i, v[1], v[2]))
  /\ UNCHANGED <<pc, otherVars, raindrop_system, writes>>

NextProbe ==
  \/ ProbeUpdate
  \/ ProbeResize

SpecProbe == InitProbe /\ [][NextProbe]_vars

(* ================================================================ claims *)
LoopPcs == {"refresh", "size", "draw", "poll"}
Flags == <<is_raining, is_thunderstorm, is_cloudy>>

\* C1: in a non-simulated session, between any two consecutive calls of
\* get_current_weather at least REFRESH_INTERVAL elapses, also after a failed
\* fetch and after a failed first fetch.
C1_AtMostOncePerInterval ==
  (simulate_condition = None /\ call_gap # -1) => call_gap >= REFRESH_INTERVAL

\* C2: in a session started with a simulated condition no tick calls the
\* provider, whatever time has elapsed, and the synthesized snapshot and the
\* flags set before the loop never change while the loop runs.
C2_SimulatedNeverFetches ==
  /\ [](simulate_condition # None => last_call = -1 /\ fetched = "no")
  /\ [][(simulate_condition # None /\ pc \in LoopPcs /\ pc' \in LoopPcs)
          => UNCHANGED <<current_weather, Flags>>]_vars

\* C2 witness: a simulated session passes a refresh point with a full interval elapsed
C2_Witness ==
  /\ simulate_condition # None
  /\ pc = "size"
  /\ now - last_update >= REFRESH_INTERVAL
  /\ current_weather # None

\* C3: a failed refresh leaves the snapshot (or its absence) and the three
\* flags as they were, sets weather_error to the failure text, and the loop
\* goes on with the rest of the tick: run_app does not return.
C3_FailedRefreshNonFatal ==
  [][(pc = "refresh" /\ fetched' = "err")
       => /\ UNCHANGED <<current_weather, Flags>>
          /\ \E e \in ProviderErrors : weather_error' = Some("Error fetching weather: " \o e)
          /\ pc' = "size"
          /\ result' = "none"
          /\ exit' = "none"]_vars

\* C3 witness: a tick whose refresh failed while a rainy snapshot is held goes on drawing
C3_Witness ==
  /\ pc = "poll"
  /\ weather_error # None
  /\ current_weather # None
  /\ is_raining
  /\ Len(drawn) > 0

\* C4: once init has been attempted, cleanup has been executed at least once
\* when the process ends, whether by a quit key, an I/O error out of run_app,
\* a failure inside init or a panic.
C4_CleanupOnEveryExit ==
  (pc = "ended" /\ init_attempted) => cleanup_calls >= 1

\* C4 witness: the process has ended by a panic and cleanup ran
C4_Witness ==
  /\ pc = "ended"
  /\ exit = "panic"
  /\ cleanup_calls >= 1

\* the mapping as C5 states it
C5_Mapping(c) ==
  [is_thunderstorm |-> c \in {"Thunderstorm", "ThunderstormHail"},
   is_raining |-> c \in {"Drizzle", "Rain", "RainShowers", "FreezingRain"},
   is_cloudy |-> c \in {"PartlyCloudy", "Cloudy", "Overcast"}]

\* C5: the flags assigned by the simulated start and by a successful fetch are
\* the same function of the condition: at most one flag is true, with the
\* stated condition classes, and Clear, Fog and the snow family give none.
C5_FlagMapping ==
  /\ \A c \in WeatherCondition : SimFlags(c) = FetchFlags(c)
  /\ (pc \in LoopPcs /\ flags_from # "none") =>
       /\ current_weather # None
       /\ is_thunderstorm = C5_Mapping(current_weather[1].condition).is_thunderstorm
       /\ is_raining = C5_Mapping(current_weather[1].condition).is_raining
       /\ is_cloudy = C5_Mapping(current_weather[1].condition).is_cloudy
       /\ Cardinality({k \in 1..3 : Flags[k]}) <= 1
       /\ (current_weather[1].condition \in
             {"Clear", "Fog", "Snow", "SnowGrains", "SnowShowers"}
           => Flags = <<FALSE, FALSE, FALSE>>)

\* C5 witness: a fetched thunderstorm has set the flags
C5_Witness ==
  /\ flags_from = "fetch"
  /\ pc = "size"
  /\ is_thunderstorm
  /\ current_weather[1].condition = "ThunderstormHail"

SunOp(row) == <<"sun", "render", row>>
HasSun(ops) == \E row \in {2, 3} : Has(ops, SunOp(row))
IsPrefix(p, q) == Len(p) <= Len(q) /\ SubSeq(q, 1, Len(p)) = p
Layer(name) == << <<name, "update", 0>>, <<name, "render", 0>> >>

\* the layers of a tick as C6 orders them, around the sun layer `sun`
C6_Layers(sun) ==
  (IF is_cloudy THEN Layer("clouds") ELSE <<>>)
  \o (IF ~is_raining /\ ~is_thunderstorm THEN Layer("birds") ELSE <<>>)
  \o sun
  \o << <<"house", "render", IF height > 20 THEN 10 ELSE 9>> >>
  \o (IF is_thunderstorm THEN Layer("storm") ELSE <<>>)
  \o (IF is_raining /\ ~is_thunderstorm THEN Layer("rain") ELSE <<>>)

C6_Orders ==
  {<< <<"screen", "clear", 0>>, <<"header", "render", 1>> >> \o C6_Layers(sun)
     \o << <<"screen", "flush", 0>> >> : sun \in {<<>>, <<SunOp(2)>>, <<SunOp(3)>>}}

\* C6: every tick draws back to front: clouds iff is_cloudy, birds iff neither
\* raining nor storming, then the sun, then the house (row 10 when height > 20,
\* row 9 otherwise), then the storm system iff is_thunderstorm, the rain
\* system iff is_raining and not is_thunderstorm; never both storm and rain.
\* A tick cut short by an I/O error has drawn a prefix of that order.
C6_DrawOrder ==
  [][pc = "draw" =>
       /\ \E o \in C6_Orders : IsPrefix(drawn', o)
       /\ (pc' = "poll" => drawn' \in C6_Orders)
       /\ ~(Has(drawn', <<"storm", "update", 0>>) /\ Has(drawn', <<"rain", "update", 0>>))
       /\ ~(Has(drawn', <<"storm", "render", 0>>) /\ Has(drawn', <<"rain", "render", 0>>))]_vars

\* C6 witness: a partly cloudy tick in a tall viewport drew clouds, birds, sun, house
C6_Witness ==
  /\ pc = "poll"
  /\ is_cloudy
  /\ height > 20
  /\ drawn = << <<"screen", "clear", 0>>, <<"header", "render", 1>> >>
             \o Layer("clouds") \o Layer("birds")
             \o << SunOp(3), <<"house", "render", 10>>, <<"screen", "flush", 0>> >>

\* C7 as stated: the sun layer is rendered only if a snapshot is held whose
\* condition is Clear or PartlyCloudy and neither is_raining nor
\* is_thunderstorm is set; never in a tick where no snapshot is held.
C7_SunOnlyClearOrPartly ==
  [][(pc = "draw" /\ HasSun(drawn')) =>
       /\ current_weather # None
       /\ current_weather[1].condition \in {"Clear", "PartlyCloudy"}
       /\ ~is_raining
       /\ ~is_thunderstorm]_vars

\* C7 amended: the sun layer is rendered only if neither is_raining nor
\* is_thunderstorm is set and the condition held is Clear or PartlyCloudy or no
\* snapshot is held; a tick that holds no snapshot and draws to the end
\* renders the sun.
C7_Amended ==
  [][pc = "draw" =>
       /\ HasSun(drawn') =>
            /\ ~is_raining
            /\ ~is_thunderstorm
            /\ \/ current_weather = None
               \/ current_weather[1].condition \in {"Clear", "PartlyCloudy"}
       /\ (pc' = "poll" /\ current_weather = None) => HasSun(drawn')]_vars

\* C7 witness: a tick without a snapshot has rendered the sun
C7_Witness ==
  /\ pc = "poll"
  /\ current_weather = None
  /\ weather_error # None
  /\ HasSun(drawn)

\* C8: after new and after any sequence of updates, with equal or changed
\* positive dimensions, every drop has 0 <= x < w and 0 <= trunc(y) < h for the
\* system's dimensions, and render writes only to cells in that range.
C8_DropsInsideViewport ==
  LET w == raindrop_system.terminal_width
      h == raindrop_system.terminal_height
  IN /\ \A k \in DOMAIN raindrop_system.drops :
          /\ 0 <= raindrop_system.drops[k].x
          /\ raindrop_system.drops[k].x < w
          /\ 0 <= raindrop_system.drops[k].y
          /\ raindrop_system.drops[k].y \div 10 < h
     /\ \A j \in DOMAIN writes :
          /\ 0 <= writes[j][1] /\ writes[j][1] < w
          /\ 0 <= writes[j][2] /\ writes[j][2] < h

\* C8 witness: a system of several drops, one of them wrapped to the top, was rendered
C8_Witness ==
  /\ pc = "rain"
  /\ Len(writes) >= 2
  /\ \E k \in DOMAIN raindrop_system.drops :
       /\ raindrop_system.drops[k].y = 0
       /\ raindrop_system.drops[k].x #
            NewDrop(k - 1, raindrop_system.terminal_width,
                    raindrop_system.terminal_height).x

RainSized ==
  /\ raindrop_system.terminal_width = width
  /\ raindrop_system.terminal_height = height
  /\ Len(raindrop_system.drops) = (width * height) \div 40

\* C9 as stated: when the viewport read in a tick differs from the previous
\* tick's, after the tick the rain system holds floor(w*h/40) drops and the new
\* dimensions, whatever the scene flags are.
C9_AllSystemsRepopulated ==
  (pc = "poll" /\ prev_size # <<width, height>>) => RainSized

\* C9 amended: when the viewport read in a tick differs from the previous
\* tick's, the rain system holds floor(w*h/40) drops and the new dimensions
\* after the tick if the tick updates it (is_raining and not is_thunderstorm);
\* a tick that does not update it leaves its drops and dimensions as they were.
C9_Amended ==
  /\ []((pc = "poll" /\ prev_size # <<width, height>>
          /\ is_raining /\ ~is_thunderstorm) => RainSized)
  /\ [][(pc = "draw" /\ pc' = "poll" /\ ~(is_raining /\ ~is_thunderstorm))
          => raindrop_system' = raindrop_system]_vars

\* C9 witness: a rainy tick after a resize to the viewport that holds one drop
C9_Witness ==
  /\ pc = "poll"
  /\ prev_size # <<width, height>>
  /\ is_raining
  /\ Len(raindrop_system.drops) = 1
  /\ raindrop_system.terminal_width = width

\* C10: in an update with unchanged dimensions (w, h), a drop with
\* trunc(y + speed) >= h ends with y = 0 and x = (13 * x_old + 7) mod w, for
\* every u16 width; any other drop keeps x and has y = y_old + speed.
C10_WrapFormula ==
  [][(pc = "probe" /\ probe'[1].w = probe[1].w /\ probe'[1].h = probe[1].h) =>
       LET old == probe[1].d
           new == probe'[1].d
       IN IF (old.y + old.speed) \div 10 >= probe[1].h
            THEN new.y = 0 /\ new.x = (13 * old.x + 7) % probe[1].w
            ELSE new.y = old.y + old.speed /\ new.x = old.x]_vars

(* ------------------------------------------------------------------- C11 *)
C11_QuitKeys == {"q", "Q", "ctrl-c"}
C11_Flush == <<"screen", "flush", 0>>

\* one step of the program, seen from the input poll
C11_Step ==
  \* the loop is broken on input only at the poll, after the flush
  /\ event' # event
       => /\ pc = "poll"
          /\ event = "none"
          /\ drawn # <<>>
          /\ drawn[Len(drawn)] = C11_Flush
  \* a quit key ends the loop at once, with Ok(()), on the way to cleanup
  /\ (pc = "poll" /\ event' # event)
       => /\ event' \in C11_QuitKeys
          /\ pc' = "main_cleanup"
          /\ result' = "ok"
          /\ UNCHANGED <<drawn, writes, last_call, termVars>>
  \* a poll that goes on to the next tick leaves the session as it was
  /\ (pc = "poll" /\ pc' \in InApp)
       => /\ pc' = "refresh"
          /\ UNCHANGED <<exit, result, event, weatherVars, last_update, sizeVars,
                         raindrop_system, drawVars, callVars, termVars>>
  \* after the quit key: nothing is drawn or fetched, cleanup runs next
  /\ event \in C11_QuitKeys
       => /\ UNCHANGED <<drawn, writes, last_call, result>>
          /\ pc' \notin InApp
          /\ pc = "main_cleanup" =>
               /\ cleanup_calls' = cleanup_calls + 1
               /\ exit' \in {"ok", "err"}
               /\ exit' = "ok" <=> (~raw_mode' /\ ~alt_screen')

C12_RainSession == simulate_condition = Some("rain")
C12_Suppressed == {"sun", "clouds", "birds", "storm"}

\* the calls of a full tick of the rain session
C12_Tick ==
  << <<"screen", "clear", 0>>, <<"header", "render", 1>>, <<"house", "render", house_y>>,
     <<"rain", "update", 0>>, <<"rain", "render", 0>>, <<"screen", "flush", 0>> >>

\* C12: in a session started with --simulate rain, in every tick the flags are
\* is_raining = true, is_thunderstorm = false, is_cloudy = false, the rain
\* system is updated and rendered, and the sun, cloud, bird and storm layers
\* are neither updated nor rendered.
C12_SimulateRain ==
  C12_RainSession =>
    /\ pc \in LoopPcs => Flags = <<TRUE, FALSE, FALSE>>
    /\ \A j \in DOMAIN drawn : drawn[j][1] \notin C12_Suppressed
    /\ pc = "poll" =>
         /\ drawn = C12_Tick
         /\ <<raindrop_system.terminal_width, raindrop_system.terminal_height>>
              = <<width, height>>
         /\ writes = RaindropSystem_render(raindrop_system)

\* a later tick of the rain session has drawn its drops
C12_Witness ==
  /\ C12_RainSession
  /\ pc = "poll"
  /\ now > 0
  /\ Has(drawn, <<"rain", "render", 0>>)
  /\ Len(writes) >= 1

(* ------------------------------------------------------------------- C13 *)
C13_ErrorStrings == {"Error fetching weather: " \o e : e \in ProviderErrors}

\* a live session without --simulate whose fetches, one at least, have all failed
C13_AllFailed == simulate_condition = None /\ last_done # -1 /\ last_success = -1

C13_State ==
  C13_AllFailed =>
    /\ pc \in LoopPcs
    /\ current_weather = None
    /\ weather_error # None
    /\ weather_error[1] \in C13_ErrorStrings
    /\ pc = "size" => fetched = "err"
    /\ pc = "poll" => header_text = <<weather_error[1], LocationPart>>

C13_Step ==
  \* the Err arm goes on to the rest of the tick
  /\ (pc = "refresh" /\ fetched' = "err")
       => /\ pc' = "size"
          /\ UNCHANGED <<exit, result, current_weather>>
  \* the snapshot stays None until a fetch succeeds
  /\ (C13_AllFailed /\ current_weather' # None) => fetched' = "ok"
  \* what ends the loop is a quit key or an error of the terminal (or an unwinding)
  /\ (C13_AllFailed /\ pc' \notin InApp)
       => \/ pc = "poll" /\ event' \in {"q", "Q", "ctrl-c"} /\ result' = "ok"
          \/ pc \in {"size", "draw", "poll"} /\ result' = "err"
          \/ exit' = "panic"

\* C13: in a non-simulated session where every fetch fails, for any number of
\* ticks, the header line drawn in each tick carries the error string, the held
\* snapshot stays None until the first successful fetch, and the loop never
\* terminates because of the failures: it ends only on a quit key or a
\* terminal I/O error.
C13_AllFetchesFail == []C13_State /\ [][C13_Step]_vars

\* a tick at or after the second failed attempt has drawn its header
C13_Witness ==
  /\ C13_AllFailed
  /\ pc = "poll"
  /\ last_call >= REFRESH_INTERVAL
  /\ header_text = <<"Error fetching weather: network unreachable", LocationPart>>

(* ------------------------------------------------------------------- C14 *)
\* the refresh decision of a tick of a session without --simulate
C14_Decides == pc = "refresh" /\ pc' = "size" /\ simulate_condition = None
C14_Calls == fetched' \in {"ok", "err"}

\* C14: a tick of a non-simulated session calls the provider if and only if no
\* snapshot is held yet or the refresh interval has elapsed since the last
\* successful fetch; after a failed refresh while a snapshot is held, the
\* interval is still measured from the last successful fetch.
C14_SinceLastSuccess ==
  [][C14_Decides =>
       (C14_Calls <=> (current_weather = None
                       \/ now - last_success >= REFRESH_INTERVAL))]_vars

\* C14 as the code has it: a tick of a non-simulated session calls the provider
\* if and only if no snapshot is held yet or the refresh interval has elapsed
\* since the last attempt resolved, whether it succeeded or failed.
C14_Amended ==
  [][C14_Decides =>
       /\ C14_Calls <=> (current_weather = None
                         \/ now - last_done >= REFRESH_INTERVAL)
       /\ last_update = (IF last_done = -1 THEN 0 ELSE last_done)
       /\ C14_Calls => last_update' = now' /\ last_done' = now']_vars

\* a snapshot is held, the last attempt failed less than an interval ago, the
\* last success is an interval old, and the tick has not called the provider
C14_Witness ==
  /\ pc = "size"
  /\ simulate_condition = None
  /\ current_weather # None
  /\ last_outcome = "err"
  /\ fetched = "no"
  /\ now - last_success >= REFRESH_INTERVAL
  /\ now - last_done < REFRESH_INTERVAL

(* ------------------------------------------------------------------- C15 *)
\* C15: when the first fetch fails and no snapshot is held, the tick renders
\* the "Loading..." placeholder in the header; in every tick in which no
\* snapshot is held the header text contains "Loading...".
C15_LoadingPlaceholder ==
  (pc = "poll" /\ current_weather = None)
    => \E j \in DOMAIN header_text : header_text[j] = "Loading..."

(* ------------------------------------------------------------------- C16 *)
C16_Inside(x, y) == 0 <= x /\ x < width /\ 0 <= y /\ y < height

\* C16: every write the main loop and the animation systems issue to the
\* renderer in a tick (the header line at column 2, row 1; each house line at
\* rows house_y..; each particle glyph) has coordinates inside the current
\* viewport; a write outside the viewport never reaches the renderer, for
\* every viewport size including ones smaller than the header or the house.
C16_WritesInsideViewport ==
  pc = "poll" =>
    /\ Has(drawn, <<"header", "render", HeaderAt[2]>>) => C16_Inside(HeaderAt[1], HeaderAt[2])
    /\ \A j \in DOMAIN drawn :
         (drawn[j][1] = "house" /\ drawn[j][2] = "render") => drawn[j][3] < height
    /\ \A j \in DOMAIN writes : C16_Inside(writes[j][1], writes[j][2])

(* ------------------------------------------------------------------- C17 *)
\* C17: the state right after new(w, h), and right after an update whose
\* dimensions differ from the cached ones, depends only on (w, h): drop i has
\* x = (7 * i) mod w, y = (3.7 * i) mod h, speed = 0.3 + 0.1 * (i mod 5) and
\* the glyph of index i mod 4 of the four characters, and is not advanced in
\* that update; two systems driven by the same sizes are in identical states.
C17_FreshDropFormula ==
  (pc = "probe" /\ probe[1].fresh) =>
    LET i == probe[1].i
        d == probe[1].d
    IN /\ d.x = (7 * i) % probe[1].w
       /\ d.y = (37 * i) % (10 * probe[1].h)
       /\ d.speed = 3 + (i % 5)
       /\ d.character = characters[(i % 4) + 1]
       /\ d = ProbeDrop(i, probe[1].w, probe[1].h).d

(* ------------------------------------------------------------------- C18 *)
C18_RenderPoint == pc \in {"draw", "poll"}

\* the flags the mapping gives for the snapshot held, all false for none
C18_Expected(snapshot) ==
  IF snapshot = None
    THEN <<FALSE, FALSE, FALSE>>
    ELSE LET m == C5_Mapping(snapshot[1].condition)
         IN <<m.is_raining, m.is_thunderstorm, m.is_cloudy>>

C18_Step ==
  \* a successful refresh replaces snapshot and flags together, and clears the error
  /\ (pc = "refresh" /\ fetched' = "ok")
       => /\ current_weather' # None
          /\ current_weather'[1].timestamp = "fetched"
          /\ Flags' = C18_Expected(current_weather')
          /\ weather_error' = None
  \* nothing else changes the snapshot or the flags while the loop runs
  /\ (pc \in LoopPcs /\ pc' \in LoopPcs /\ fetched' # "ok")
       => UNCHANGED <<current_weather, is_raining, is_thunderstorm, is_cloudy>>

\* C18: at every render point of every tick, after any sequence of successful
\* and failed refreshes, the flags (is_raining, is_thunderstorm, is_cloudy)
\* equal the condition-to-flag mapping applied to the condition of the held
\* snapshot, and are all false while no snapshot is held; a successful refresh
\* replaces the snapshot and the three flags together and clears the error.
C18_FlagConsistency ==
  /\ [](C18_RenderPoint => Flags = C18_Expected(current_weather))
  /\ [][C18_Step]_vars

\* a render point after a success that was followed by a failure: the snapshot
\* of the success is held and its flag is set
C18_Witness ==
  /\ pc = "draw"
  /\ last_outcome = "err"
  /\ current_weather # None
  /\ current_weather[1].condition = "Overcast"
  /\ is_cloudy
  /\ weather_error # None

(* ------------------------------------------------------------------- C19 *)
C19_RainDims == <<raindrop_system.terminal_width, raindrop_system.terminal_height>>
C19_RainActive == is_raining /\ ~is_thunderstorm
C19_RainRendered == Has(drawn, <<"rain", "render", 0>>)

C19_Step ==
  \* the drawing section of a tick
  /\ (pc = "draw" /\ pc' = "poll")
       => IF C19_RainActive
            THEN /\ C19_RainRendered'
                 /\ C19_RainDims # <<width, height>>
                      => raindrop_system' = RaindropSystem_new(width, height)
            ELSE /\ ~C19_RainRendered'
                 /\ raindrop_system' = raindrop_system
  \* no other step of the loop touches the rain system, resize or not
  /\ (pc \in {"refresh", "size", "poll"} /\ pc' \in LoopPcs)
       => raindrop_system' = raindrop_system

\* C19: whenever the rain system is rendered by the main loop, its cached
\* dimensions equal the viewport read in that same tick, even if the terminal
\* was resized any number of times while the rain layer was inactive: the
\* system keeps its stale population while inactive, and the first tick in
\* which it becomes active reinitializes it before it is drawn.
C19_RenderedWithCurrentSize ==
  /\ []((pc = "poll" /\ C19_RainRendered)
          => /\ C19_RainDims = <<width, height>>
             /\ writes = RaindropSystem_render(raindrop_system))
  /\ [][C19_Step]_vars

\* rain came with a refresh of this instant, in a tick that did not resize, and
\* the drop drawn is the one new() makes: the system was stale when the tick began
C19_Witness ==
  /\ pc = "poll"
  /\ simulate_condition = None
  /\ C19_RainRendered
  /\ prev_size = <<width, height>>
  /\ last_outcome = "ok"
  /\ last_success = now
  /\ now >= REFRESH_INTERVAL
  /\ raindrop_system = RaindropSystem_new(width, height)
  /\ Len(writes) = 1

(* ------------------------------------------------------------------- C20 *)
C20_ErrorSet == weather_error # None

C20_State ==
  /\ pc \in {"draw", "poll"} =>
       /\ C20_ErrorSet <=> last_outcome = "err"
       /\ simulate_condition # None => ~C20_ErrorSet /\ last_outcome = "none"
  /\ pc = "poll" =>
       /\ drawn = DrawOps
       /\ IF C20_ErrorSet
            THEN /\ header_text = <<weather_error[1], LocationPart>>
                 /\ \A j \in DOMAIN header_text : header_text[j] # "Weather: "
            ELSE /\ header_text[1] = "Weather: "
                 /\ header_text[2] = condition_text

\* C20: at every render point, weather_error is set if and only if the most
\* recent fetch attempt of the session failed (it is never set in a simulated
\* session), and whenever it is set the header shows the error text in place
\* of the weather summary, even while a valid earlier snapshot is held and
\* still drives the scene layers.
C20_ErrorIffLastAttemptFailed == C20_State

\* a tick drawn with the error in the header and the clouds of the snapshot held
C20_Witness ==
  /\ pc = "poll"
  /\ C20_ErrorSet
  /\ current_weather # None
  /\ current_weather[1].condition = "Cloudy"
  /\ Has(drawn, <<"clouds", "render", 0>>)
  /\ header_text[1] = "Error fetching weather: bad response"

====
